---- MODULE Spec2Model ----
(***************************************************************************)
(* Channel<T>: the single-producer / single-consumer ring buffer of        *)
(* channel.h.  The header holds three variants of the class:               *)
(*   "volatile" (lines 1-92)    rounding constructor, volatile indices,    *)
(*                              full barriers and a CAS publish loop;      *)
(*   "atomic"   (lines 94-165)  rounding constructor, std::atomic indices  *)
(*                              with acquire loads and release stores;     *)
(*   "reserved" (lines 167-256) storage of n + 1 slots, one slot reserved, *)
(*                              volatile indices and a CAS publish loop.   *)
(* One producer thread runs Send and one consumer thread runs Receive.     *)
(* Every load and store of an index and every slot access is one step, so  *)
(* the two calls interleave at the granularity of the memory accesses the  *)
(* code orders with its barriers / acquire-release pairs.                  *)
(* The volatile variants put a full barrier (__sync_synchronize) between   *)
(* the index loads, the slot access and the publishing CAS, and an aligned *)
(* int is loaded and stored whole, so what those builds can produce are    *)
(* the interleavings of these steps as well.                               *)
(* All integers stay far below 2^31 within the bounds, so int arithmetic   *)
(* is exact.                                                               *)
(***************************************************************************)
EXTENDS Integers, Sequences, FiniteSets, Bags, TLC

\* ---------------------------------------------------------------- bounds
MaxCap == 4          \* constructor arguments 0..MaxCap
MaxSends == 9        \* accepted Sends per run (enough to wrap 8 slots)
StepBound == 5       \* steps of one call: load, load, test, slot, publish
MaxNeg == 2          \* negative constructor arguments -MaxNeg..-1

NoItem == 0          \* an uninitialised T (new T[size_], `T t;` of a caller)
Variants == {"volatile", "atomic", "reserved"}
CapArgs == 0..MaxCap
AnyArgs == (0 - MaxNeg)..MaxCap
StepCap == StepBound + 1

kChunks == 10        \* const int kChunks = 10;

VARIABLES
  variant,      \* which class definition of channel.h is compiled
  arg,          \* the argument the constructor was called with
  ok,           \* the constructor returned (no assertion failure, no trap)
  cap_,         \* rounding variants: cap_
  size_,        \* rounding variants: size_
  size_mask_,   \* all variants: size_mask_
  n_,           \* reserved variant: n_ (= storage length)
  buf_,         \* the storage, indexed from 0
  r_, w_,       \* the shared indices
  ppc, pitem, pw, pr, presult,    \* producer thread: position and locals of Send
  cpc, cr, cw, out, cresult,      \* consumer thread: position and locals of Receive, *item
  sent, received,                 \* history: values of Sends / Receives that returned true
  pocc, cocc,                     \* history: items queued when Send read r_ / Receive read w_
  psteps, csteps,                 \* history: steps taken by the call in progress
  psnap, csnap,                   \* history: what the caller's side looked like at call entry
  streak,                         \* history: Sends returned since the channel was empty, no Receive since
  refill,                         \* history: the Send that follows one Receive from a full channel
  heap,                           \* what Sends stored outside the storage, by index
  pairN, volCh, resCh,            \* comparison: a volatile and a reserved-slot channel of capacity pairN
  pairCalls, pairLast,            \* comparison: Send calls made, the latest call and its two results
  emptyChunks, filledChunks,      \* player: the two channels of the .wav player
  mainT, cbT,                     \* player: main thread and audio callback, position and locals
  running,                        \* player: the stream is started (the callback gets called)
  exHist                          \* player history: results of the Sends to emptyChunks, chunks deleted

ctorVars == <<variant, arg, ok, cap_, size_, size_mask_, n_>>
prodVars == <<ppc, pitem, pw, pr, presult, pocc, psteps, psnap>>
consVars == <<cpc, cr, cw, out, cresult, cocc, csteps, csnap>>
scenVars == <<streak, refill>>
pairVars == <<pairN, volCh, resCh, pairCalls, pairLast>>
exVars == <<emptyChunks, filledChunks, mainT, cbT, running, exHist>>
farVars == <<pairVars, exVars>>
vars == <<ctorVars, buf_, r_, w_, prodVars, consVars, sent, received, scenVars, heap, farVars>>

\* ------------------------------------------------------- pure arithmetic
\* a & b on ints (two's complement: \div floors, so a negative mask works)
RECURSIVE BitAnd(_, _)
BitAnd(a, b) ==
  IF a = 0 \/ b = 0 THEN 0
  ELSE IF a = -1 THEN b
  ELSE IF b = -1 THEN a
  ELSE (a % 2) * (b % 2) + 2 * BitAnd(a \div 2, b \div 2)

\* floor(log(c)/log(2)) for c >= 1
RECURSIVE FloorLog2(_)
FloorLog2(c) == IF c < 2 THEN 0 ELSE 1 + FloorLog2(c \div 2)

Min(a, b) == IF a < b THEN a ELSE b

Range(s) == {s[i] : i \in DOMAIN s}

\* ------------------------------------------------------------ constructor
Aborted == [ok |-> FALSE, cap_ |-> 0, size_ |-> 0, size_mask_ |-> 0, n_ |-> 0]

\* Channel(int capacity) of the volatile and atomic variants.
\*   assert(capacity >= 0);
\*   int power = floor(log(capacity)/log(2)) + 1;  size_ = 1 << power;
\* For capacity 0 the double is -inf and its conversion to int is undefined:
\* the build either traps, or yields INT_MIN and a shift whose count the
\* hardware reduces to 0, i.e. size_ = 1.
RoundingCtorCeil(capacity) ==
  IF capacity <= 0 THEN {Aborted}
  ELSE LET power == IF 2 ^ FloorLog2(capacity) = capacity
                      THEN FloorLog2(capacity) ELSE FloorLog2(capacity) + 1
           size == 2 ^ power
       IN {[ok |-> TRUE, cap_ |-> capacity, size_ |-> size,
            size_mask_ |-> size - 1, n_ |-> 0]}
RoundingCtor(capacity) ==
  IF capacity < 0 THEN {Aborted}
  ELSE IF capacity = 0
    THEN {Aborted,
          [ok |-> TRUE, cap_ |-> 0, size_ |-> 1, size_mask_ |-> 0, n_ |-> 0]}
    ELSE LET power == FloorLog2(capacity) + 1
             size == 2 ^ power
         IN {[ok |-> TRUE, cap_ |-> capacity, size_ |-> size,
              size_mask_ |-> size - 1, n_ |-> 0]}

\* Channel(int n) of the reserved-slot variant.
\*   n_(n + 1), size_mask_(n), buf_(new T[n + 1]);  assert((n & (n + 1)) == 0);
\* new T[n + 1] of a negative length throws before the assertion is reached.
ReservedCtorUnchecked(n) ==
  {[ok |-> TRUE, cap_ |-> 0, size_ |-> 0, size_mask_ |-> n, n_ |-> n + 1]}
ReservedCtor(n) ==
  IF n + 1 < 0 THEN {Aborted}
  ELSE IF BitAnd(n, n + 1) = 0
    THEN {[ok |-> TRUE, cap_ |-> 0, size_ |-> 0, size_mask_ |-> n, n_ |-> n + 1]}
    ELSE {Aborted}

Ctor(v, capacity) ==
  IF v = "reserved" THEN ReservedCtor(capacity) ELSE RoundingCtor(capacity)

\* the members of this channel, for the operators that take the channel
Self == [variant |-> variant, cap_ |-> cap_, size_ |-> size_,
         size_mask_ |-> size_mask_, n_ |-> n_]

\* length of the array buf_ points to
StorageLengthOf(c) == IF c.variant = "reserved" THEN c.n_ ELSE c.size_
StorageLength == StorageLengthOf(Self)

\* int capacity() const
capacityIsStorage == StorageLength
capacity == IF variant = "reserved" THEN n_ - 1 ELSE cap_

\* ------------------------------------------------------------- Send parts
\* volatile: ((w > r) ? w - r : w - r + size_) == cap_
FullVolatileStorage(w, r) == (IF w > r THEN w - r ELSE w - r + size_) = size_ - 1
FullVolatileOf(c, w, r) == (IF w > r THEN w - r ELSE w - r + c.size_) = c.cap_
FullVolatile(w, r) == FullVolatileOf(Self, w, r)

\* atomic: nitems == cap_ || nitems + size_ == cap_
FullAtomicNoWrap(w, r) == w - r = cap_
FullAtomicOf(c, w, r) ==
  LET nitems == w - r IN nitems = c.cap_ \/ nitems + c.size_ = c.cap_
FullAtomic(w, r) == FullAtomicOf(Self, w, r)

\* reserved: next == r
FullReservedOf(c, w, r) == BitAnd(w + 1, c.size_mask_) = r
FullReserved(w, r) == FullReservedOf(Self, w, r)

Full(w, r) ==
  CASE variant = "volatile" -> FullVolatile(w, r)
    [] variant = "atomic"   -> FullAtomic(w, r)
    [] OTHER                -> FullReserved(w, r)

\* (i + 1) & size_mask_
AdvanceStuck(i) == i
AdvanceNoMask(i) == i + 1
AdvanceOf(c, i) == BitAnd(i + 1, c.size_mask_)
Advance(i) == AdvanceOf(Self, i)

\* the volatile and reserved variants publish with
\*   while (!__sync_bool_compare_and_swap(&x_, old, next)) ;
\* the atomic variant with a plain release store.
UsesCas == variant # "atomic"

\* !__sync_bool_compare_and_swap(&x_, old, next): the loop goes round again
CasFailsSwapped(cur, old) == UsesCas /\ cur # Advance(old)
CasFails(cur, old) == UsesCas /\ cur # old

\* the slot Send writes: buf_[w]
SendSlotNext == Advance(pw)
SendSlot == pw

\* the slot Receive copies: buf_[r]
ReceiveSlotNewest == (cw + StorageLength - 1) % StorageLength
ReceiveSlot == cr

\* items accepted and not yet delivered
Queued == Len(sent) - Len(received)

\* ------------------------------------------- whole calls on one channel
\* A channel as one value: the members the constructor c of variant v set,
\* the storage and the two indices.
ChannelOf(v, c) ==
  [variant |-> v, ok |-> c.ok, cap_ |-> c.cap_, size_ |-> c.size_,
   size_mask_ |-> c.size_mask_, n_ |-> c.n_,
   buf_ |-> [i \in 0..((IF v = "reserved" THEN c.n_ ELSE c.size_) - 1) |-> NoItem],
   r_ |-> 0, w_ |-> 0]

FullOfTwoReserved(c, w, r) ==
  CASE c.variant = "volatile" -> FullVolatileOf(c, w, r)
    [] c.variant = "atomic"   -> FullAtomicOf(c, w, r)
    [] OTHER                  -> BitAnd(w + 2, c.size_mask_) = r
FullOf(c, w, r) ==
  CASE c.variant = "volatile" -> FullVolatileOf(c, w, r)
    [] c.variant = "atomic"   -> FullAtomicOf(c, w, r)
    [] OTHER                  -> FullReservedOf(c, w, r)

\* Send(item) run from entry to return with no step of the other thread in
\* between: the channel afterwards and the value returned
SendOf(c, item) ==
  IF FullOf(c, c.w_, c.r_)
    THEN [ch |-> c, ret |-> FALSE]
    ELSE [ch |-> [c EXCEPT !.buf_[c.w_] = item, !.w_ = AdvanceOf(c, c.w_)],
          ret |-> TRUE]

\* Receive(&t) run from entry to return likewise; t is the caller's variable
ReceiveOf(c, t) ==
  IF c.r_ = c.w_
    THEN [ch |-> c, ret |-> FALSE, item |-> t]
    ELSE [ch |-> [c EXCEPT !.r_ = AdvanceOf(c, c.r_)],
          ret |-> TRUE, item |-> c.buf_[c.r_]]

\* ------------------------------------------------------------------ Init
\* before the first call of a comparison
NoCall == [op |-> "none", vret |-> FALSE, rret |-> FALSE,
           vitem |-> NoItem, ritem |-> NoItem, vq |-> 0, rq |-> 0]

\* no pair of channels is under comparison
PairOff ==
  /\ pairN = 0
  /\ volCh = ChannelOf("volatile", Aborted)
  /\ resCh = ChannelOf("reserved", Aborted)
  /\ pairCalls = 0
  /\ pairLast = NoCall

\* the state after constructor outcome c of Channel(a), variant v
InitOf(v, a, c) ==
  /\ variant = v
  /\ arg = a
  /\ ok = c.ok
  /\ cap_ = c.cap_
  /\ size_ = c.size_
  /\ size_mask_ = c.size_mask_
  /\ n_ = c.n_
  /\ buf_ = [i \in 0..((IF v = "reserved" THEN c.n_ ELSE c.size_) - 1) |-> NoItem]
  /\ r_ = 0
  /\ w_ = 0
  /\ ppc = "idle" /\ pitem = NoItem /\ pw = 0 /\ pr = 0 /\ presult = "none"
  /\ cpc = "idle" /\ cr = 0 /\ cw = 0 /\ out = NoItem /\ cresult = "none"
  /\ sent = <<>> /\ received = <<>>
  /\ pocc = 0 /\ cocc = 0
  /\ psteps = 0 /\ csteps = 0
  /\ psnap = [w |-> 0, buf |-> buf_]
  /\ csnap = [r |-> 0, out |-> NoItem]
  /\ streak = 0
  /\ refill = "no"
  /\ heap = <<>>

\* the player is not running
ExOff ==
  /\ emptyChunks = ChannelOf("volatile", Aborted)
  /\ filledChunks = ChannelOf("volatile", Aborted)
  /\ mainT = [pc |-> "off", phase |-> "off", i |-> 0, chunk |-> NoItem, r |-> 0, w |-> 0, last |-> FALSE]
  /\ cbT = [pc |-> "off", chunk |-> NoItem, r |-> 0, w |-> 0]
  /\ running = FALSE
  /\ exHist = [initTrue |-> 0, initFalse |-> 0, cbSend |-> "none", deleted |-> {}]

InitWithArgs(vs, args) ==
  /\ \E v \in vs, a \in args :
       \E c \in Ctor(v, a) : InitOf(v, a, c)
  /\ PairOff
  /\ ExOff

InitWith(vs) == InitWithArgs(vs, CapArgs)

Init == InitWith(Variants)

\* ------------------------------------------------------------------ Send
\* The volatile variant loads r_ and then w_; the atomic and the reserved
\* variants load w_ and then r_.
SendLoadsRFirst == variant = "volatile"

\* history kept when a Send returns
SendReturns ==
  /\ streak' = (IF streak < 0 THEN streak ELSE Min(streak + 1, MaxCap + 2))
  /\ refill' = (IF refill = "running" THEN "done" ELSE refill)

\* The caller's item.  The channel never looks at a payload, so the producer
\* tags every item with its position in the accepted sequence; an item that
\* was refused is offered again (while (!c.Send(s)) ;).
NextItem == Len(sent) + 1

\* bool Send(const T &item): entry and first index load
SendLoad1 ==
  /\ ok /\ ppc = "idle" /\ Len(sent) < MaxSends
  /\ pitem' = NextItem
  /\ IF SendLoadsRFirst
       THEN pr' = r_ /\ pocc' = Queued /\ pw' = 0
       ELSE pw' = w_ /\ pocc' = pocc /\ pr' = 0
  /\ ppc' = "load2"
  /\ presult' = "none"
  /\ psteps' = 1
  /\ psnap' = [w |-> w_, buf |-> buf_]
  /\ refill' = (IF refill = "armed" THEN "running" ELSE "no")
  /\ UNCHANGED <<farVars, heap, ctorVars, buf_, r_, w_, consVars, sent, received, streak>>

\* second index load
SendLoad2WrongIndex ==
  /\ ppc = "load2"
  /\ IF SendLoadsRFirst
       THEN pw' = r_ /\ pocc' = pocc /\ pr' = pr
       ELSE pr' = r_ /\ pocc' = Queued /\ pw' = pw
  /\ ppc' = "check"
  /\ psteps' = Min(psteps + 1, StepCap)
  /\ UNCHANGED <<farVars, heap, ctorVars, buf_, r_, w_, pitem, presult, psnap, consVars, sent, received, scenVars>>
SendLoad2 ==
  /\ ppc = "load2"
  /\ IF SendLoadsRFirst
       THEN pw' = w_ /\ pocc' = pocc /\ pr' = pr
       ELSE pr' = r_ /\ pocc' = Queued /\ pw' = pw
  /\ ppc' = "check"
  /\ psteps' = Min(psteps + 1, StepCap)
  /\ UNCHANGED <<farVars, heap, ctorVars, buf_, r_, w_, pitem, presult, psnap, consVars, sent, received, scenVars>>

\* Is the buffer full?  return false;
SendCheckStoresFirst ==
  /\ ppc = "check"
  /\ buf_' = IF pw \in DOMAIN buf_ THEN [buf_ EXCEPT ![pw] = pitem] ELSE buf_
  /\ IF Full(pw, pr)
       THEN ppc' = "idle" /\ presult' = "false" /\ SendReturns
       ELSE ppc' = "write" /\ presult' = presult /\ UNCHANGED scenVars
  /\ psteps' = Min(psteps + 1, StepCap)
  /\ UNCHANGED <<farVars, heap, ctorVars, r_, w_, pitem, pw, pr, pocc, psnap, consVars, sent, received>>
SendCheckPublishesFirst ==
  /\ ppc = "check"
  /\ IF Full(pw, pr)
       THEN ppc' = "idle" /\ presult' = "false" /\ w_' = w_ /\ SendReturns
       ELSE ppc' = "write" /\ presult' = presult /\ w_' = Advance(pw) /\ UNCHANGED scenVars
  /\ psteps' = Min(psteps + 1, StepCap)
  /\ UNCHANGED <<farVars, heap, ctorVars, buf_, r_, pitem, pw, pr, pocc, psnap, consVars, sent, received>>
SendCheck ==
  /\ ppc = "check"
  /\ IF Full(pw, pr)
       THEN ppc' = "idle" /\ presult' = "false" /\ SendReturns
       ELSE ppc' = "write" /\ presult' = presult /\ UNCHANGED scenVars
  /\ psteps' = Min(psteps + 1, StepCap)
  /\ UNCHANGED <<farVars, heap, ctorVars, buf_, r_, w_, pitem, pw, pr, pocc, psnap, consVars, sent, received>>

\* A slot access outside the storage is undefined: the access goes to the
\* memory past the array, or the process is killed (both threads stop).
SlotAccess(slot) == IF slot \in DOMAIN buf_ THEN {"inside"} ELSE {"outside", "killed"}

\* buf_[w] = item;
SendWrite ==
  /\ ppc = "write"
  /\ \E how \in SlotAccess(SendSlot) :
       /\ buf_' = IF how = "inside" THEN [buf_ EXCEPT ![SendSlot] = pitem] ELSE buf_
       /\ heap' = IF how = "outside"
                    THEN [i \in DOMAIN heap \cup {SendSlot} |->
                            IF i = SendSlot THEN pitem ELSE heap[i]]
                    ELSE heap
       /\ ppc' = IF how = "killed" THEN "dead" ELSE "publish"
       /\ cpc' = IF how = "killed" THEN "dead" ELSE cpc
  /\ psteps' = Min(psteps + 1, StepCap)
  /\ UNCHANGED <<farVars, ctorVars, r_, w_, pitem, pw, pr, presult, pocc, psnap,
                 cr, cw, out, cresult, cocc, csteps, csnap, sent, received, scenVars>>

\* w_.store((w+1) & size_mask_, release)   /   while (!CAS(&w_, w, next)) ;
\* return true;
SendPublish ==
  /\ ppc = "publish"
  /\ psteps' = Min(psteps + 1, StepCap)
  /\ IF CasFails(w_, pw)
       THEN UNCHANGED <<w_, ppc, presult, sent, scenVars>>
       ELSE /\ w_' = Advance(pw)
            /\ ppc' = "idle"
            /\ presult' = "true"
            /\ sent' = Append(sent, pitem)
            /\ SendReturns
  /\ UNCHANGED <<farVars, heap, ctorVars, buf_, r_, pitem, pw, pr, pocc, psnap, consVars, received>>

Producer ==
  \/ SendLoad1
  \/ SendLoad2
  \/ SendCheck
  \/ SendWrite
  \/ SendPublish

\* --------------------------------------------------------------- Receive
\* bool Receive(T* item): entry and load of r_
ReceiveLoad1 ==
  /\ ok /\ cpc = "idle"
  /\ cr' = r_
  /\ cw' = 0
  /\ cpc' = "load2"
  /\ cresult' = "none"
  /\ csteps' = 1
  /\ csnap' = [r |-> r_, out |-> out]
  /\ streak' = -1
  /\ refill' = "no"
  /\ UNCHANGED <<farVars, heap, ctorVars, buf_, r_, w_, out, cocc, prodVars, sent, received>>

\* load of w_
ReceiveLoad2 ==
  /\ cpc = "load2"
  /\ cw' = w_
  /\ cocc' = Queued
  /\ cpc' = "check"
  /\ csteps' = Min(csteps + 1, StepCap)
  /\ UNCHANGED <<farVars, heap, ctorVars, buf_, r_, w_, cr, out, cresult, csnap, prodVars, sent, received, scenVars>>

\* Is the buffer empty?  if (r == w) return false;
ReceiveCheck ==
  /\ cpc = "check"
  /\ IF cr = cw
       THEN /\ cpc' = "idle" /\ cresult' = "false"
            /\ streak' = (IF ppc = "idle" /\ Queued = 0 THEN 0 ELSE streak)
            /\ refill' = refill
       ELSE cpc' = "copy" /\ cresult' = cresult /\ UNCHANGED scenVars
  /\ csteps' = Min(csteps + 1, StepCap)
  /\ UNCHANGED <<farVars, heap, ctorVars, buf_, r_, w_, cr, cw, out, cocc, csnap, prodVars, sent, received>>

\* *item = buf_[r];
ReceiveCopy ==
  /\ cpc = "copy"
  /\ \E how \in SlotAccess(ReceiveSlot) :
       /\ out' = IF how = "inside" THEN buf_[ReceiveSlot]
                 ELSE IF how = "outside" /\ ReceiveSlot \in DOMAIN heap THEN heap[ReceiveSlot]
                 ELSE IF how = "outside" THEN NoItem
                 ELSE out
       /\ cpc' = IF how = "killed" THEN "dead" ELSE "publish"
       /\ ppc' = IF how = "killed" THEN "dead" ELSE ppc
  /\ csteps' = Min(csteps + 1, StepCap)
  /\ UNCHANGED <<farVars, heap, ctorVars, buf_, r_, w_, cr, cw, cresult, cocc, csnap,
                 pitem, pw, pr, presult, pocc, psteps, psnap, sent, received, scenVars>>

\* r_.store((r+1) & size_mask_, release)   /   while (!CAS(&r_, r, next)) ;
\* return true;
ReceivePublish ==
  /\ cpc = "publish"
  /\ csteps' = Min(csteps + 1, StepCap)
  /\ IF CasFails(r_, cr)
       THEN UNCHANGED <<r_, cpc, cresult, received, scenVars>>
       ELSE /\ r_' = Advance(cr)
            /\ cpc' = "idle"
            /\ cresult' = "true"
            /\ received' = Append(received, out)
            /\ streak' = (IF ppc = "idle" /\ Queued = 1 THEN 0 ELSE streak)
            /\ refill' = (IF ppc = "idle" /\ Queued = capacity THEN "armed" ELSE "no")
  /\ UNCHANGED <<farVars, heap, ctorVars, buf_, w_, cr, cw, out, cocc, csnap, prodVars, sent>>

Consumer ==
  \/ ReceiveLoad1
  \/ ReceiveLoad2
  \/ ReceiveCheck
  \/ ReceiveCopy
  \/ ReceivePublish

Next == Producer \/ Consumer

Spec == Init /\ [][Next]_vars

\* the atomic variant alone (the current definition of the class)
InitAtomic == InitWith({"atomic"})
SpecAtomic == InitAtomic /\ [][Next]_vars

TypeOK ==
  /\ variant \in Variants /\ arg \in AnyArgs /\ ok \in BOOLEAN
  /\ ppc \in {"idle", "load2", "check", "write", "publish", "dead"}
  /\ cpc \in {"idle", "load2", "check", "copy", "publish", "dead"}
  /\ presult \in {"none", "true", "false"} /\ cresult \in {"none", "true", "false"}
  /\ Len(sent) <= MaxSends /\ Len(received) <= Len(sent)

\* every variant, constructed with any argument, negative ones included
InitAnyArg == InitWithArgs(Variants, AnyArgs)
SpecAnyArg == InitAnyArg /\ [][Next]_vars

\* ------------------------------------------- two conventions side by side
\* The volatile variant and the reserved-slot variant constructed with the
\* same argument and driven by one caller with the same calls, one call at a
\* time.  The argument ranges over the capacities both constructors accept.
PairCaps ==
  {a \in CapArgs : (\E c \in RoundingCtor(a) : c.ok) /\ (\E c \in ReservedCtor(a) : c.ok)}

\* no single channel is under test: its constructor did not return
MainOff == InitOf("volatile", 0 - 1, Aborted)

PairInit ==
  /\ MainOff
  /\ \E a \in PairCaps :
       \E cv \in {c \in RoundingCtor(a) : c.ok}, cr2 \in {c \in ReservedCtor(a) : c.ok} :
         /\ pairN = a
         /\ volCh = ChannelOf("volatile", cv)
         /\ resCh = ChannelOf("reserved", cr2)
  /\ pairCalls = 0
  /\ pairLast = NoCall
  /\ ExOff

\* items handed to Send and not yet copied out by Receive, from the indices
QueuedOf(c) == (c.w_ - c.r_) % StorageLengthOf(c)

\* the same Send(item) on both channels
PairSend ==
  /\ pairCalls < MaxSends
  /\ LET item == pairCalls + 1
         v == SendOf(volCh, item)
         r == SendOf(resCh, item)
     IN /\ volCh' = v.ch
        /\ resCh' = r.ch
        /\ pairLast' = [op |-> "Send", vret |-> v.ret, rret |-> r.ret,
                        vitem |-> item, ritem |-> item,
                        vq |-> QueuedOf(volCh), rq |-> QueuedOf(resCh)]
  /\ pairCalls' = pairCalls + 1
  /\ UNCHANGED <<exVars, pairN, ctorVars, buf_, r_, w_, prodVars, consVars, sent, received, scenVars, heap>>

\* the same Receive(&t) on both channels, t uninitialised
PairReceive ==
  /\ LET v == ReceiveOf(volCh, NoItem)
         r == ReceiveOf(resCh, NoItem)
     IN /\ volCh' = v.ch
        /\ resCh' = r.ch
        /\ pairLast' = [op |-> "Receive", vret |-> v.ret, rret |-> r.ret,
                        vitem |-> v.item, ritem |-> r.item,
                        vq |-> QueuedOf(volCh), rq |-> QueuedOf(resCh)]
  /\ UNCHANGED <<exVars, pairN, pairCalls, ctorVars, buf_, r_, w_, prodVars, consVars, sent, received, scenVars, heap>>

PairNext == PairSend \/ PairReceive

PairSpec == PairInit /\ [][PairNext]_vars

\* ------------------------------------------------------- the .wav player
\* part_000: main reads the file into chunks and sends them to the audio
\* callback over filledChunks; the callback sends each chunk back over
\* emptyChunks.  The player includes channel.h, whose include guard keeps
\* the first definition of the class: the volatile variant.  Chunks are
\* numbered 1..kChunks in the order main allocates them.
\* A call of one thread interleaves with the other thread at its accesses
\* to the shared indices: the index loads, the test with the slot access,
\* and the publishing CAS.  The locals of a call are gone when it returns.
ExampleVariant == "volatile"
EmptyChunksCapacityShort == kChunks - 1
EmptyChunksCapacity == kChunks
FilledChunksCapacity == kChunks

mainVars == <<ctorVars, buf_, r_, w_, prodVars, consVars, sent, received, scenVars, heap>>

ExInit ==
  /\ MainOff
  /\ PairOff
  /\ \E ce \in RoundingCtor(EmptyChunksCapacity), cf \in RoundingCtor(FilledChunksCapacity) :
       /\ emptyChunks = ChannelOf(ExampleVariant, ce)
       /\ filledChunks = ChannelOf(ExampleVariant, cf)
  /\ mainT = [pc |-> "init", phase |-> "init", i |-> 0, chunk |-> NoItem, r |-> 0, w |-> 0, last |-> FALSE]
  /\ cbT = [pc |-> "idle", chunk |-> NoItem, r |-> 0, w |-> 0]
  /\ running = FALSE
  /\ exHist = [initTrue |-> 0, initFalse |-> 0, cbSend |-> "none", deleted |-> {}]

\* for (int i = 0; i < kChunks; i++) { chunk = new float[..]; emptyChunks.Send(chunk); }
\* The stream is not open yet, no other thread exists: the Send runs whole.
\* Its result is not looked at.
MainInitSend ==
  /\ mainT.pc = "init" /\ mainT.i < kChunks
  /\ LET s == SendOf(emptyChunks, mainT.i + 1)
     IN /\ emptyChunks' = s.ch
        /\ exHist' = IF s.ret THEN [exHist EXCEPT !.initTrue = @ + 1]
                               ELSE [exHist EXCEPT !.initFalse = @ + 1]
  /\ mainT' = [mainT EXCEPT !.i = @ + 1]
  /\ UNCHANGED <<filledChunks, cbT, running, pairVars, mainVars>>

\* Pa_OpenDefaultStream / Pa_StartStream: on an error main returns 1
MainStart ==
  /\ mainT.pc = "init" /\ mainT.i = kChunks
  /\ \E started \in BOOLEAN :
       /\ running' = started
       /\ mainT' = IF started THEN [mainT EXCEPT !.pc = "eRecv1", !.phase = "play", !.i = 0]
                              ELSE [mainT EXCEPT !.pc = "done", !.phase = "done"]
  /\ UNCHANGED <<emptyChunks, filledChunks, cbT, exHist, pairVars, mainVars>>

\* emptyChunks.Receive(&chunk): int r = r_; int w = w_;
MainRecvLoad ==
  /\ mainT.pc = "eRecv1"
  /\ mainT' = [mainT EXCEPT !.pc = "eRecv2", !.chunk = NoItem,
                            !.r = emptyChunks.r_, !.w = emptyChunks.w_]
  /\ UNCHANGED <<emptyChunks, filledChunks, cbT, running, exHist, pairVars, mainVars>>

\* if (r == w) return false;  (Pa_Sleep(10) and the call again)   *item = buf_[r];
MainRecvCheck ==
  /\ mainT.pc = "eRecv2"
  /\ mainT' = IF mainT.r = mainT.w
                THEN [mainT EXCEPT !.pc = "eRecv1", !.r = 0, !.w = 0]
                ELSE [mainT EXCEPT !.pc = "eRecv3", !.chunk = emptyChunks.buf_[mainT.r]]
  /\ UNCHANGED <<emptyChunks, filledChunks, cbT, running, exHist, pairVars, mainVars>>

\* while (!CAS(&r_, r, next)) ; return true;
\* In the copy loop the chunk is then filled from the file (n frames read;
\* fewer than kFramesPerBuffer on the last one); in the clean-up loop it is
\* deleted, and after kChunks of them main goes on to stop the stream.
MainRecvPublish ==
  /\ mainT.pc = "eRecv3"
  /\ IF emptyChunks.r_ # mainT.r
       THEN UNCHANGED <<emptyChunks, mainT, exHist>>
       ELSE /\ emptyChunks' = [emptyChunks EXCEPT !.r_ = AdvanceOf(emptyChunks, mainT.r)]
            /\ IF mainT.phase = "play"
                 THEN /\ \E last \in BOOLEAN :
                           mainT' = [mainT EXCEPT !.pc = "fSend1", !.last = last, !.r = 0, !.w = 0]
                      /\ exHist' = exHist
                 ELSE /\ mainT' = [mainT EXCEPT !.chunk = NoItem, !.i = @ + 1, !.r = 0, !.w = 0,
                                     !.pc = IF mainT.i + 1 = kChunks THEN "stop" ELSE "eRecv1"]
                      /\ exHist' = [exHist EXCEPT !.deleted = @ \cup {mainT.chunk}]
  /\ UNCHANGED <<filledChunks, cbT, running, pairVars, mainVars>>

\* filledChunks.Send(chunk): int r = r_; int w = w_;
MainSendLoad ==
  /\ mainT.pc = "fSend1"
  /\ mainT' = [mainT EXCEPT !.pc = "fSend2", !.r = filledChunks.r_, !.w = filledChunks.w_]
  /\ UNCHANGED <<emptyChunks, filledChunks, cbT, running, exHist, pairVars, mainVars>>

\* full: return false (Pa_Sleep(10) and the call again);  buf_[w] = t;
MainSendCheck ==
  /\ mainT.pc = "fSend2"
  /\ IF FullOf(filledChunks, mainT.w, mainT.r)
       THEN mainT' = [mainT EXCEPT !.pc = "fSend1", !.r = 0, !.w = 0] /\ filledChunks' = filledChunks
       ELSE /\ mainT' = [mainT EXCEPT !.pc = "fSend3"]
            /\ filledChunks' = [filledChunks EXCEPT !.buf_[mainT.w] = mainT.chunk]
  /\ UNCHANGED <<emptyChunks, cbT, running, exHist, pairVars, mainVars>>

\* while (!CAS(&w_, w, next)) ; return true;   } while (n == kFramesPerBuffer);
MainSendPublish ==
  /\ mainT.pc = "fSend3"
  /\ IF filledChunks.w_ # mainT.w
       THEN UNCHANGED <<filledChunks, mainT>>
       ELSE /\ filledChunks' = [filledChunks EXCEPT !.w_ = AdvanceOf(filledChunks, mainT.w)]
            /\ mainT' = IF mainT.last
                          THEN [mainT EXCEPT !.pc = "eRecv1", !.phase = "cleanup", !.i = 0,
                                             !.chunk = NoItem, !.r = 0, !.w = 0, !.last = FALSE]
                          ELSE [mainT EXCEPT !.pc = "eRecv1", !.chunk = NoItem, !.r = 0, !.w = 0]
  /\ UNCHANGED <<emptyChunks, cbT, running, exHist, pairVars, mainVars>>

\* Pa_StopStream: returns when no callback is in progress; none is called after
MainStop ==
  /\ mainT.pc = "stop" /\ cbT.pc = "idle"
  /\ running' = FALSE
  /\ mainT' = [mainT EXCEPT !.pc = "done", !.phase = "done"]
  /\ UNCHANGED <<emptyChunks, filledChunks, cbT, exHist, pairVars, mainVars>>

MainThread ==
  \/ MainInitSend
  \/ MainStart
  \/ MainRecvLoad
  \/ MainRecvCheck
  \/ MainRecvPublish
  \/ MainSendLoad
  \/ MainSendCheck
  \/ MainSendPublish
  \/ MainStop

\* callback entry; filledChunks.Receive(&chunk): int r = r_; int w = w_;
CbRecvLoad ==
  /\ running /\ cbT.pc = "idle"
  /\ cbT' = [cbT EXCEPT !.pc = "fRecv2", !.chunk = NoItem,
                        !.r = filledChunks.r_, !.w = filledChunks.w_]
  /\ UNCHANGED <<emptyChunks, filledChunks, mainT, running, exHist, pairVars, mainVars>>

\* if (r == w) return false;  (memset, return paContinue)   *item = buf_[r];
CbRecvCheck ==
  /\ cbT.pc = "fRecv2"
  /\ cbT' = IF cbT.r = cbT.w
              THEN [cbT EXCEPT !.pc = "idle", !.r = 0, !.w = 0]
              ELSE [cbT EXCEPT !.pc = "fRecv3", !.chunk = filledChunks.buf_[cbT.r]]
  /\ UNCHANGED <<emptyChunks, filledChunks, mainT, running, exHist, pairVars, mainVars>>

\* while (!CAS(&r_, r, next)) ; return true;   memcpy(out, chunk, ..);
CbRecvPublish ==
  /\ cbT.pc = "fRecv3"
  /\ IF filledChunks.r_ # cbT.r
       THEN UNCHANGED <<filledChunks, cbT>>
       ELSE /\ filledChunks' = [filledChunks EXCEPT !.r_ = AdvanceOf(filledChunks, cbT.r)]
            /\ cbT' = [cbT EXCEPT !.pc = "eSend1", !.r = 0, !.w = 0]
  /\ UNCHANGED <<emptyChunks, mainT, running, exHist, pairVars, mainVars>>

\* emptyChunks.Send(chunk): int r = r_; int w = w_;
CbSendLoad ==
  /\ cbT.pc = "eSend1"
  /\ cbT' = [cbT EXCEPT !.pc = "eSend2", !.r = emptyChunks.r_, !.w = emptyChunks.w_]
  /\ exHist' = [exHist EXCEPT !.cbSend = "none"]
  /\ UNCHANGED <<emptyChunks, filledChunks, mainT, running, pairVars, mainVars>>

\* full: return false (the result is not looked at, the callback returns
\* and the chunk is gone);  buf_[w] = t;
CbSendCheck ==
  /\ cbT.pc = "eSend2"
  /\ IF FullOf(emptyChunks, cbT.w, cbT.r)
       THEN /\ cbT' = [cbT EXCEPT !.pc = "idle", !.chunk = NoItem, !.r = 0, !.w = 0]
            /\ exHist' = [exHist EXCEPT !.cbSend = "false"]
            /\ emptyChunks' = emptyChunks
       ELSE /\ cbT' = [cbT EXCEPT !.pc = "eSend3"]
            /\ exHist' = exHist
            /\ emptyChunks' = [emptyChunks EXCEPT !.buf_[cbT.w] = cbT.chunk]
  /\ UNCHANGED <<filledChunks, mainT, running, pairVars, mainVars>>

\* while (!CAS(&w_, w, next)) ; return true;   return paContinue;
CbSendPublish ==
  /\ cbT.pc = "eSend3"
  /\ IF emptyChunks.w_ # cbT.w
       THEN UNCHANGED <<emptyChunks, cbT, exHist>>
       ELSE /\ emptyChunks' = [emptyChunks EXCEPT !.w_ = AdvanceOf(emptyChunks, cbT.w)]
            /\ cbT' = [cbT EXCEPT !.pc = "idle", !.chunk = NoItem, !.r = 0, !.w = 0]
            /\ exHist' = [exHist EXCEPT !.cbSend = "true"]
  /\ UNCHANGED <<filledChunks, mainT, running, pairVars, mainVars>>

Callback ==
  \/ CbRecvLoad
  \/ CbRecvCheck
  \/ CbRecvPublish
  \/ CbSendLoad
  \/ CbSendCheck
  \/ CbSendPublish

ExNext == MainThread \/ Callback

ExSpec == ExInit /\ [][ExNext]_vars

\* ----------------------------------------------------------- fair variant
\* a consumer that keeps calling Receive: its steps are never postponed for ever
FairSpecAtomic == SpecAtomic /\ WF_vars(Consumer)

\* ------------------------------------------------------- derived notions
BagOf(s) == [v \in Range(s) |-> Cardinality({i \in DOMAIN s : s[i] = v})]

\* (writeIndex - readIndex) mod storageLength
Occupancy == (w_ - r_) % StorageLength

\* the slots from r_ up to, not including, w_
InFlight == [i \in 1..Occupancy |-> buf_[(r_ + i - 1) % StorageLength]]

SendReturned == ppc = "idle" /\ presult # "none"
ReceiveReturned == cpc = "idle" /\ cresult # "none"

\* ------------------------------------------------------------------ C1
\* C1: FIFO.  In every reachable state the values delivered by successful
\* Receives are, in order, a prefix of the values accepted by successful
\* Sends: the k-th delivered value is the k-th accepted value.
FifoOrder ==
  /\ Len(received) <= Len(sent)
  /\ \A k \in 1..Len(received) : received[k] = sent[k]

\* everything was delivered, the indices have wrapped, and the order mattered
FifoWitness ==
  /\ ok /\ Len(received) = MaxSends /\ MaxSends > StorageLength
  /\ capacity >= 2 /\ received = sent

\* ------------------------------------------------------------------ C2
\* C2: a Send returns true if and only if fewer than capacity items were
\* queued (successful Sends minus successful Receives) when it read r_.
SendIffNotFull ==
  SendReturned => (presult = "true" <=> pocc < capacity)

\* the same, leaving out the rounding constructor's capacity 0
SendIffNotFullBut0 ==
  (SendReturned /\ ~(variant = "volatile" /\ arg = 0))
     => (presult = "true" <=> pocc < capacity)

\* ------------------------------------------------------------------ C3
\* C3: a Receive returns true if and only if at least one item was queued
\* (accepted by a Send that has stored w_, not yet received) when it read w_.
ReceiveIffNonEmpty ==
  ReceiveReturned => (cresult = "true" <=> cocc > 0)

\* the same, leaving out the rounding constructor's capacity 0
ReceiveIffNonEmptyBut0 ==
  (ReceiveReturned /\ ~(variant = "volatile" /\ arg = 0))
     => (cresult = "true" <=> cocc > 0)

\* the direction that holds everywhere: never true on an empty channel
ReceiveOnlyIfNonEmpty ==
  ReceiveReturned => (cresult = "true" => cocc > 0)

\* ------------------------------------------------------------------ C4
\* C4: exact-capacity boundary.  For capacity N >= 1, of the Sends made on an
\* empty channel with no Receive in between, the first N return true and the
\* later ones false; and the Send that follows one successful Receive from
\* the full channel returns true.
ExactCapacityBoundary ==
  (ok /\ arg >= 1) =>
     /\ (streak >= 1 /\ SendReturned) => (presult = "true" <=> streak <= arg)
     /\ (refill = "done") => presult = "true"

\* N Sends accepted, one Receive from the full channel, the next Send accepted
BoundaryWitness ==
  ok /\ arg = 3 /\ variant = "volatile" /\ refill = "done" /\ presult = "true"

\* the (N+1)-th Send in a row was refused
BoundaryRefusedWitness ==
  ok /\ arg = 3 /\ variant = "volatile" /\ streak = arg + 1 /\ SendReturned /\ presult = "false"

FalseReturnChangesNothing ==
  [][ /\ (ppc # "idle" /\ ppc' = "idle" /\ presult' = "false")
          => (w_' = psnap.w /\ buf_' = psnap.buf)
      /\ (ppc' # ppc \/ psteps' # psteps) => (r_' = r_ /\ out' = out)
      /\ (cpc # "idle" /\ cpc' = "idle" /\ cresult' = "false")
          => (r_' = csnap.r /\ out' = csnap.out)
      /\ (cpc' # cpc \/ csteps' # csteps) => (w_' = w_ /\ buf_' = buf_)
    ]_vars

\* a refused Send on a full channel and a refused Receive, after traffic
FalseReturnWitness ==
  /\ SendReturned /\ presult = "false" /\ pocc >= 1
  /\ ReceiveReturned /\ cresult = "false" /\ Len(received) >= 1

\* ------------------------------------------------------------------ C7
\* C7: occupancy bound.  In every reachable state, also in the middle of a
\* call, (w_ - r_) mod storage length lies between 0 and capacity.
OccupancyBound ==
  ok => (Occupancy >= 0 /\ Occupancy <= capacity)

\* full, with storage longer than the capacity, in the middle of both calls
OccupancyWitness ==
  /\ ok /\ Occupancy = capacity /\ capacity >= 2 /\ StorageLength > capacity + 1
  /\ ppc = "check" /\ cpc = "copy" /\ w_ < r_ /\ Len(received) >= 1

\* ------------------------------------------------------------------ C8
\* C8: wait-freedom.  A call never takes more than StepBound steps, and a
\* call in progress can always take its next step whatever the other thread
\* is doing.
WaitFree ==
  /\ psteps <= StepBound /\ csteps <= StepBound
  /\ (ppc # "idle") => ENABLED Producer
  /\ (cpc # "idle") => ENABLED Consumer

\* both threads at their CAS at the same time
WaitFreeWitness ==
  UsesCas /\ ppc = "publish" /\ cpc = "publish" /\ psteps = 4 /\ csteps = 4

CapacityIsArgument ==
  ok => capacity = arg

\* after traffic, with storage longer than the capacity
CapacityWitness ==
  ok /\ Len(received) >= 1 /\ StorageLength > arg + 1 /\ capacity = arg

\* ------------------------------------------------------------------ C11
\* C11: in every variant a negative constructor argument makes construction
\* fail, so no channel whose capacity() is negative is ever in use.
NegativeCapacityRejected ==
  /\ (arg < 0) => ~ok
  /\ ok => capacity >= 0

\* the same for the two rounding variants
NegativeCapacityRejectedRounding ==
  (variant # "reserved") => NegativeCapacityRejected

\* ------------------------------------------------------------------ C12
IsPowerOfTwo(x) == \E k \in 0..x : 2 ^ k = x

\* C12: in the reserved-slot variant, construction with n >= 0 succeeds if
\* and only if n + 1 is a power of two, and then (i + 1) & n equals
\* (i + 1) mod (n + 1) for every index i of the storage.
ReservedCtorValidates ==
  (variant = "reserved" /\ arg >= 0) =>
     /\ ok <=> IsPowerOfTwo(arg + 1)
     /\ ok => \A i \in 0..(n_ - 1) : Advance(i) = (i + 1) % n_

\* a reserved-slot channel of 4 slots whose indices have wrapped
ReservedCtorWitness ==
  variant = "reserved" /\ ok /\ arg = 3 /\ Len(received) > n_ /\ w_ = 1

\* ------------------------------------------------------------------ C13
IndexInRange(i) == i >= 0 /\ i < StorageLength

\* C13: index range and unit advance.  r_ and w_ always lie in
\* 0 .. storage length - 1, the slot a call is about to access lies in the
\* storage, every successful Send moves w_ to (w_ + 1) mod storage length
\* and every successful Receive moves r_ to (r_ + 1) mod storage length.
IndexRangeAndAdvance ==
  [][ /\ ok => (IndexInRange(r_) /\ IndexInRange(w_))
      /\ ok => (IndexInRange(r_') /\ IndexInRange(w_'))
      /\ (ppc = "write") => SendSlot \in DOMAIN buf_
      /\ (cpc = "copy") => ReceiveSlot \in DOMAIN buf_
      /\ (sent' # sent) => w_' = (w_ + 1) % StorageLength
      /\ (sent' = sent) => w_' = w_
      /\ (received' # received) => r_' = (r_ + 1) % StorageLength
      /\ (received' = received) => r_' = r_
    ]_vars

\* both indices have wrapped round a storage of at least 4 slots
IndexWrapWitness ==
  ok /\ StorageLength >= 4 /\ Len(received) > StorageLength /\ w_ = 0 /\ r_ = 0

\* ------------------------------------------------------------------ C14
\* C14 as stated: size_ is the smallest power of two that is at least as
\* large as the capacity.
SizeIsLeastPowerAtLeast ==
  (ok /\ variant # "reserved") =>
     /\ IsPowerOfTwo(size_)
     /\ size_ >= arg
     /\ \A p \in 1..size_ : (IsPowerOfTwo(p) /\ p >= arg) => size_ <= p

\* C14 as amended: size_ is the smallest power of two strictly greater than
\* the capacity (twice the capacity when that is a power of two), so the
\* capacity is below the storage length.
SizeIsLeastPowerAbove ==
  (ok /\ variant # "reserved") =>
     /\ IsPowerOfTwo(size_)
     /\ size_ > arg
     /\ \A p \in 1..size_ : (IsPowerOfTwo(p) /\ p > arg) => size_ <= p
     /\ capacity < StorageLength

\* capacity 4, itself a power of two, gets 8 slots
SizeWitness ==
  ok /\ variant = "atomic" /\ arg = 4 /\ size_ = 8 /\ Len(sent) >= 1

\* ------------------------------------------------------------------ C15
\* C15: slot race-freedom.  (a) When the consumer is about to copy buf_[r],
\* and when it has copied it, the slot holds the value of the Send whose
\* item is next in line.  (b) When the producer is about to write a slot,
\* that slot is none of the slots r_ .. w_ - 1 (whose items the consumer has
\* not finished copying), and so never the slot the consumer is reading.
SlotRaceFree ==
  /\ (cpc = "copy") =>
        /\ Len(sent) > Len(received)
        /\ ReceiveSlot \in DOMAIN buf_
        /\ buf_[ReceiveSlot] = sent[Len(received) + 1]
  /\ (cpc = "publish") =>
        /\ Len(sent) > Len(received)
        /\ out = sent[Len(received) + 1]
  /\ (ppc = "write") =>
        /\ \A i \in 0..(Occupancy - 1) : SendSlot # (r_ + i) % StorageLength
        /\ (cpc \in {"copy", "publish"}) => SendSlot # cr

\* producer about to write a slot, consumer about to copy another, wrapped
SlotRaceWitness ==
  /\ ok /\ ppc = "write" /\ cpc = "copy" /\ pw < cr /\ Len(received) >= 2

\* ------------------------------------------------------------------ C16
\* C16: in the compare-and-swap variants the CAS succeeds on its first
\* attempt: at Send's CAS w_ still equals the w the call loaded, at
\* Receive's CAS r_ still equals the r the call loaded.
CasFirstTry ==
  UsesCas =>
     /\ (ppc = "publish") => (w_ = pw /\ ~CasFails(w_, pw) /\ psteps = 4)
     /\ (cpc = "publish") => (r_ = cr /\ ~CasFails(r_, cr) /\ csteps = 4)

\* both threads at their CAS in the reserved-slot variant, after traffic
CasWitness ==
  variant = "reserved" /\ ppc = "publish" /\ cpc = "publish" /\ Len(received) >= 2

\* ------------------------------------------------------------------ C17
\* C17: for every constructible capacity and all indices r, w of the
\* storage, the fullness tests of the volatile and of the atomic variant
\* are true exactly when (w - r) mod storage length = capacity.
FullTestsEqualReference ==
  (ok /\ variant # "reserved") =>
     \A w \in 0..(size_ - 1), r \in 0..(size_ - 1) :
        /\ FullVolatile(w, r) <=> ((w - r) % size_ = cap_)
        /\ FullAtomic(w, r) <=> ((w - r) % size_ = cap_)

\* the same for capacities of at least 1
FullTestsEqualReferenceFrom1 ==
  (ok /\ variant # "reserved" /\ arg >= 1) =>
     \A w \in 0..(size_ - 1), r \in 0..(size_ - 1) :
        /\ FullVolatile(w, r) <=> ((w - r) % size_ = cap_)
        /\ FullAtomic(w, r) <=> ((w - r) % size_ = cap_)
        /\ (r = w) => (~FullVolatile(w, r) /\ ~FullAtomic(w, r))

\* ------------------------------------------------------------------ C19
\* C18 (as stated): constructed with the same capacity N and driven by the
\* same calls, the volatile and the reserved-slot variant return different
\* results for a Send made when exactly N items are queued.
FullSendResultsDiffer ==
  (pairLast.op = "Send" /\ pairLast.vq = pairN /\ pairLast.rq = pairN)
    => pairLast.vret # pairLast.rret

\* C18 (amended): for every capacity N >= 1 both constructors accept, the
\* two variants hold the same number of items before every call and return
\* the same result and the same item for it; both accept a Send below N
\* queued items and refuse it at exactly N.  For N = 0 every Send returns
\* true on the volatile variant and false on the reserved-slot one.
ConventionsAgreeFrom1 ==
  /\ (pairN >= 1 /\ pairLast.op # "none") =>
        /\ pairLast.vq = pairLast.rq
        /\ pairLast.vret = pairLast.rret
        /\ pairLast.vitem = pairLast.ritem
        /\ (pairLast.op = "Send") => (pairLast.vret <=> pairLast.vq < pairN)
  /\ (pairN = 0 /\ pairLast.op = "Send") => (pairLast.vret /\ ~pairLast.rret)
PairFullWitness ==
  /\ pairN = 3
  /\ pairLast.op = "Send"
  /\ pairLast.vq = pairN /\ pairLast.rq = pairN
  /\ ~pairLast.vret /\ ~pairLast.rret
  /\ volCh.w_ < volCh.r_

\* C19: a channel of capacity 0 never accepts or delivers anything: no Send
\* and no Receive returns true, and no slot or index is ever written.
ZeroCapacityInert ==
  (ok /\ arg = 0) =>
     /\ presult # "true" /\ cresult # "true"
     /\ ppc \notin {"write", "publish"}
     /\ w_ = 0 /\ r_ = 0 /\ \A i \in DOMAIN buf_ : buf_[i] = NoItem

\* the same for the atomic and the reserved-slot variant
ZeroCapacityInertButVolatile ==
  (variant # "volatile") => ZeroCapacityInert

\* the chunks queued in a channel, oldest first
ItemsOf(c) == [i \in 1..QueuedOf(c) |-> c.buf_[(c.r_ + i - 1) % StorageLengthOf(c)]]

\* chunks main has allocated so far
Allocated == IF mainT.phase = "init" THEN mainT.i ELSE kChunks

\* the chunks that are somewhere: queued in a channel, or in a thread's
\* hands between a Receive and the Send that passes the chunk on
Held ==
  ItemsOf(emptyChunks) \o ItemsOf(filledChunks)
  \o (IF mainT.pc \in {"fSend1", "fSend2", "fSend3"} THEN <<mainT.chunk>> ELSE <<>>)
  \o (IF cbT.pc \in {"eSend1", "eSend2", "eSend3"} THEN <<cbT.chunk>> ELSE <<>>)

\* every allocated chunk is in exactly one place, deleted ones included
NoChunkDropped ==
  /\ Range(Held) \cup exHist.deleted = 1..Allocated
  /\ Len(Held) + Cardinality(exHist.deleted) = Allocated

\* C20: in the player, every emptyChunks.Send of the callback returns true
\* on the first try (emptyChunks is never full when the callback tests it),
\* each of the kChunks initial emptyChunks.Send calls returns true, and no
\* chunk is dropped: every allocated chunk is in exactly one place.
PoolRecycles ==
  /\ exHist.cbSend # "false"
  /\ (cbT.pc = "eSend2") => ~FullOf(emptyChunks, cbT.w, cbT.r)
  /\ exHist.initFalse = 0
  /\ exHist.initTrue = Allocated
  /\ NoChunkDropped
PoolWitness ==
  /\ mainT.phase = "play"
  /\ exHist.initTrue = kChunks
  /\ exHist.cbSend = "true" /\ cbT.pc = "idle"
  /\ QueuedOf(emptyChunks) = kChunks
  /\ emptyChunks.w_ < emptyChunks.r_

====
